---- MODULE Spec2Model ----
(***************************************************************************)
(* A model of rp-decrypt (src/src/lib.rs): decrypt(key, pack_dir,          *)
(* output_dir) copies the two sidecar files of a resource pack, decrypts   *)
(* the content index held in contents.json after a 0x100 byte header with  *)
(* AES-256 in CFB-8 mode, and then copies or decrypts every listed entry,  *)
(* prettifying the entries whose path ends in ".json".                     *)
(*                                                                         *)
(* Bytes are two bits wide.  As JSON text the four byte values are read as *)
(* 0 = white space, 1 = the digit '1', 2 = '[' and 3 = ']'.  The AES block *)
(* function is replaced by a small keyed mixing function; the CFB-8        *)
(* feedback structure, the key and IV lengths and the header length are    *)
(* those of the program.  Paths are sequences of components; "/" as first  *)
(* component marks an absolute path and the working directory is the root  *)
(* of the file system.  There are no links: a file has one resolved path.  *)
(* A panic ends the call without a return value (result = "panic").        *)
(***************************************************************************)
EXTENDS Integers, Sequences, FiniteSets, TLC

\* ------------------------------------------------------------ constants

\* Aes256: the key length new_from_slices accepts.
KeyLen == 32
\* cfb8::Decryptor<Aes256>: the IV length, and the slice &key_bytes[0..16].
IvLen == 16
\* SeekFrom::Start(0x100): the unencrypted header of contents.json.
HeaderLen == 256

\* ---------------------------------------------------------------- bounds

\* Longest content file (in bytes) the initial states enumerate.
MaxLen == 3
\* Longest content index the initial states enumerate.
MaxEntries == 2

Byte == 0 .. 3

RECURSIVE SeqsUpTo(_)
SeqsUpTo(n) ==
  IF n = 0 THEN {<<>>}
  ELSE LET shorter == SeqsUpTo(n - 1)
       IN shorter \cup {Append(s, b) : s \in {t \in shorter : Len(t) = n - 1}, b \in Byte}

Rep(n, b) == [i \in 1 .. n |-> b]

Last(s) == s[Len(s)]

Front(s) == SubSeq(s, 1, Len(s) - 1)

\* ------------------------------------------------------- the cipher adapter

Xor(a, b) == (((a % 2) + (b % 2)) % 2) + 2 * (((a \div 2) + (b \div 2)) % 2)

\* The key schedule, computed once when the cipher is constructed.
KeySchedule(key) == (key[1] + key[IvLen + 1] + (3 * key[KeyLen])) % 4

\* First byte of the block cipher's output on the shift register.
BlockByte(sched, reg) == (sched + reg[1] + (2 * reg[IvLen - 1]) + reg[IvLen] + 1) % 4

\* new_from_slices: Err(InvalidLength) unless both slices have the exact length.
NewFromSlices(key, iv) ==
  IF Len(key) = KeyLen /\ Len(iv) = IvLen
  THEN [ok |-> TRUE, key |-> key, iv |-> iv, sched |-> KeySchedule(key)]
  ELSE [ok |-> FALSE, key |-> <<>>, iv |-> <<>>, sched |-> 0]

\* The key slice handed to new_from_slices: the whole of key_bytes.
\* A variant that cuts a longer key to its first 32 bytes.
CipherKeyArgPrefix(keyBytes) ==
  IF Len(keyBytes) >= KeyLen THEN SubSeq(keyBytes, 1, KeyLen) ELSE keyBytes
CipherKeyArg(keyBytes) == keyBytes

\* Aes256Cfb8Dec::new_from_slices(key_bytes, &key_bytes[0..16]).unwrap():
\* the slice panics on fewer than 16 bytes, the unwrap on a refused length.
SetupCipher(keyBytes) ==
  IF Len(keyBytes) < IvLen
  THEN [panic |-> TRUE, key |-> <<>>, iv |-> <<>>, sched |-> 0]
  ELSE LET c == NewFromSlices(CipherKeyArg(keyBytes), SubSeq(keyBytes, 1, IvLen))
       IN [panic |-> ~c.ok, key |-> c.key, iv |-> c.iv, sched |-> c.sched]

\* CFB-8: each byte is XORed with the cipher's output on the register, and the
\* ciphertext byte is shifted into the register.
RECURSIVE DecryptFrom(_, _, _, _)
DecryptFrom(sched, reg, buf, i) ==
  IF i > Len(buf) THEN <<>>
  ELSE <<Xor(buf[i], BlockByte(sched, reg))>>
       \o DecryptFrom(sched, Append(Tail(reg), buf[i]), buf, i + 1)

\* AsyncStreamCipher::decrypt
CipherDecrypt(c, buf) == DecryptFrom(c.sched, c.iv, buf, 1)

\* The packer's side (not in the library): what produced the archive.
RECURSIVE EncryptFrom(_, _, _, _)
EncryptFrom(sched, reg, buf, i) ==
  IF i > Len(buf) THEN <<>>
  ELSE LET ct == Xor(buf[i], BlockByte(sched, reg))
       IN <<ct>> \o EncryptFrom(sched, Append(Tail(reg), ct), buf, i + 1)

Encrypt(key, buf) == EncryptFrom(KeySchedule(key), SubSeq(key, 1, IvLen), buf, 1)

\* ------------------------------------------------------------ serde_json

\* The four bytes as JSON text: white space, the digit 1, '[' and ']'.
JsonByte == [ws |-> 0, one |-> 1, lb |-> 2, rb |-> 3]
WS == JsonByte.ws
ONE == JsonByte.one
LB == JsonByte.lb
RB == JsonByte.rb

RECURSIVE SkipWs(_, _)
SkipWs(s, i) == IF i <= Len(s) /\ s[i] = WS THEN SkipWs(s, i + 1) ELSE i

RECURSIVE Digits(_, _)
Digits(s, i) == IF i <= Len(s) /\ s[i] = ONE THEN 1 + Digits(s, i + 1) ELSE 0

NoValue == [t |-> "none", n |-> 0, e |-> <<>>]

\* A value starting at s[i]: a number (a run of digits) or an array of at most
\* one element; next is the position after it.
RECURSIVE ParseValue(_, _)
ParseValue(s, i) ==
  IF i > Len(s) THEN [ok |-> FALSE, val |-> NoValue, next |-> i]
  ELSE IF s[i] = ONE
  THEN LET n == Digits(s, i)
       IN [ok |-> TRUE, val |-> [t |-> "num", n |-> n, e |-> <<>>], next |-> i + n]
  ELSE IF s[i] = LB
  THEN LET j == SkipWs(s, i + 1)
       IN IF j <= Len(s) /\ s[j] = RB
          THEN [ok |-> TRUE, val |-> [t |-> "arr", n |-> 0, e |-> <<>>], next |-> j + 1]
          ELSE LET v == ParseValue(s, j)
                   k == SkipWs(s, v.next)
               IN IF v.ok /\ k <= Len(s) /\ s[k] = RB
                  THEN [ok |-> TRUE, val |-> [t |-> "arr", n |-> 0, e |-> <<v.val>>],
                        next |-> k + 1]
                  ELSE [ok |-> FALSE, val |-> NoValue, next |-> i]
  ELSE [ok |-> FALSE, val |-> NoValue, next |-> i]

\* serde_json::from_slice / from_reader into serde_json::Value: one value
\* between optional white space, and nothing after it.
ParseJson(s) ==
  LET v == ParseValue(s, SkipWs(s, 1))
  IN IF v.ok /\ SkipWs(s, v.next) > Len(s)
     THEN [ok |-> TRUE, val |-> v.val]
     ELSE [ok |-> FALSE, val |-> NoValue]

\* A line break followed by two spaces for each level of nesting.
Indent(depth) == Rep(1 + 2 * depth, WS)

\* serde_json::to_writer_pretty.
RECURSIVE Pretty(_, _)
Pretty(v, depth) ==
  IF v.t = "num" THEN Rep(v.n, ONE)
  ELSE IF v.e = <<>> THEN <<LB, RB>>
  ELSE <<LB>> \o Indent(depth + 1) \o Pretty(v.e[1], depth + 1)
       \o Indent(depth) \o <<RB>>

ToPretty(v) == Pretty(v, 0)

\* ------------------------------------------------------------------ paths

IsAbsolute(p) == Len(p) > 0 /\ p[1] = "/"

\* Path::join: an absolute argument replaces the base.
Join(base, rel) == IF IsAbsolute(rel) THEN rel ELSE base \o rel

\* Path::parent of a path with a final component.
Parent(p) == Front(p)

\* The file a path names: "/" restarts at the root, ".." steps to the parent
\* directory (the root is its own parent).
RECURSIVE ResolveFrom(_, _, _)
ResolveFrom(acc, p, i) ==
  IF i > Len(p) THEN acc
  ELSE IF p[i] = "/" THEN ResolveFrom(<<>>, p, i + 1)
  ELSE IF p[i] = ".." THEN ResolveFrom(IF acc = <<>> THEN <<>> ELSE Front(acc), p, i + 1)
  ELSE ResolveFrom(Append(acc, p[i]), p, i + 1)

Resolve(p) == ResolveFrom(<<>>, p, 1)

IsPrefix(a, b) == Len(a) <= Len(b) /\ SubSeq(b, 1, Len(a)) = a

\* The file names of the model that end in ".json" (str::ends_with is case
\* sensitive: "u.JSON" does not).
JsonNames == {"a.json", "c.json", "manifest.json", "contents.json"}
AnyCaseJsonNames == JsonNames \cup {"u.JSON"}

\* A variant that ignores the case of the suffix.
EndsWithJsonAnyCase(path) == Len(path) > 0 /\ Last(path) \in AnyCaseJsonNames
\* content_entry.path.ends_with(".json")
EndsWithJson(path) == Len(path) > 0 /\ Last(path) \in JsonNames

\* ------------------------------------------------------------ file system

FileNode(data) == [kind |-> "file", data |-> data]
DirNode == [kind |-> "dir", data |-> <<>>]

Exists(f, p) == p = <<>> \/ p \in DOMAIN f
IsDir(f, p) == p = <<>> \/ (p \in DOMAIN f /\ f[p].kind = "dir")
\* A variant that takes a directory for a file.
IsFileOrDir(f, p) == p \in DOMAIN f
\* Path::is_file
IsFile(f, p) == p \in DOMAIN f /\ f[p].kind = "file"

Put(f, p, node) == [q \in DOMAIN f \cup {p} |-> IF q = p THEN node ELSE f[q]]

Prefixes(p) == {SubSeq(p, 1, k) : k \in 1 .. Len(p)}

IoResult(ok, f, made) == [ok |-> ok, fs |-> f, made |-> made]

\* std::fs::create_dir_all: fails when a component is a file, otherwise
\* creates every missing directory down to p.
CreateDirAll(f, p) ==
  IF \E q \in Prefixes(p) : IsFile(f, q)
  THEN IoResult(FALSE, f, {})
  ELSE LET new == {q \in Prefixes(p) : ~Exists(f, q)}
       IN IoResult(TRUE, [q \in DOMAIN f \cup new |-> IF q \in new THEN DirNode ELSE f[q]], new)

\* File::create(p)?.write_all(data)?: the parent must be a directory and p
\* must not be one; an existing file is truncated and rewritten.
WriteFile(f, p, data) ==
  IF p = <<>> \/ ~IsDir(f, Parent(p)) \/ IsDir(f, p)
  THEN IoResult(FALSE, f, {})
  ELSE IoResult(TRUE, Put(f, p, FileNode(data)), {p})

\* std::fs::copy: the source must be a regular file.  The destination is opened
\* for writing with truncation before the source is read, so on a unix target a
\* copy of a file onto itself leaves it empty; mode "error" is a target that
\* refuses to open the destination while the source is open.
CopyFile(f, src, dst, mode) ==
  IF ~IsFile(f, src) THEN IoResult(FALSE, f, {})
  ELSE IF src = dst
  THEN IF mode = "truncate"
       THEN IoResult(TRUE, Put(f, dst, FileNode(<<>>)), {dst})
       ELSE IoResult(FALSE, f, {})
  ELSE WriteFile(f, dst, f[src].data)

\* ------------------------------------------------------- the content index

KeyA == Rep(KeyLen, 1)
KeyB == [i \in 1 .. KeyLen |-> IF i = KeyLen THEN 2 ELSE 1]
ShortKey == Rep(5, 1)
MidKey == Rep(20, 1)
LongKey == Append(KeyA, 2)
TrueMasterKey == Rep(KeyLen, 2)
LongMasterKey == Append(TrueMasterKey, 1)

ContentEntry(path, hasKey, key) == [path |-> path, hasKey |-> hasKey, key |-> key]

\* The entries an index of the model can list.
EntryTable ==
  << ContentEntry(<<"a.json">>, FALSE, <<>>),
     ContentEntry(<<"a.json">>, TRUE, KeyA),
     ContentEntry(<<"b.dat">>, FALSE, <<>>),
     ContentEntry(<<"b.dat">>, TRUE, KeyA),
     ContentEntry(<<"b.dat">>, TRUE, ShortKey),
     ContentEntry(<<"b.dat">>, TRUE, LongKey),
     ContentEntry(<<"sub", "c.json">>, TRUE, KeyB),
     ContentEntry(<<"sub", "c.json">>, FALSE, <<>>),
     ContentEntry(<<"missing.dat">>, FALSE, <<>>),
     ContentEntry(<<"missing.dat">>, TRUE, ShortKey),
     ContentEntry(<<"sub">>, FALSE, <<>>),
     ContentEntry(<<"..", "x.dat">>, FALSE, <<>>),
     ContentEntry(<<"..", "x.dat">>, TRUE, KeyA),
     ContentEntry(<<"/", "pack", "b.dat">>, TRUE, KeyA),
     ContentEntry(<<"u.JSON">>, FALSE, <<>>),
     ContentEntry(<<"d.dat">>, FALSE, <<>>) >>

\* An entry is written as two bytes, the index as '[' entries ']'.
EntryCode(n) == <<(n - 1) \div 4, (n - 1) % 4>>

RECURSIVE EncodeEntries(_, _)
EncodeEntries(ns, i) ==
  IF i > Len(ns) THEN <<>> ELSE EntryCode(ns[i]) \o EncodeEntries(ns, i + 1)

EncodeIndex(ns) == <<LB>> \o EncodeEntries(ns, 1) \o <<RB>>

RECURSIVE DecodeEntries(_, _)
DecodeEntries(buf, i) ==
  IF i + 1 >= Len(buf) THEN <<>>
  ELSE <<EntryTable[4 * buf[i] + buf[i + 1] + 1]>> \o DecodeEntries(buf, i + 2)

ContentResult(ok, content) == [ok |-> ok, content |-> content]

\* A variant that reads the empty input as an index without entries.
ParseContentLenient(buf) ==
  IF buf = <<>> THEN ContentResult(TRUE, <<>>)
  ELSE IF Len(buf) >= 2 /\ Len(buf) % 2 = 0 /\ buf[1] = LB /\ buf[Len(buf)] = RB
          /\ \A i \in 2 .. Len(buf) - 1 :
               i % 2 = 0 => 4 * buf[i] + buf[i + 1] + 1 <= Len(EntryTable)
  THEN ContentResult(TRUE, DecodeEntries(buf, 2))
  ELSE ContentResult(FALSE, <<>>)

\* serde_json::from_slice::<Content>: an error on anything that is not a
\* well-formed index, the empty input included.
ParseContent(buf) ==
  IF Len(buf) >= 2 /\ Len(buf) % 2 = 0 /\ buf[1] = LB /\ buf[Len(buf)] = RB
     /\ \A i \in 2 .. Len(buf) - 1 :
          i % 2 = 0 => 4 * buf[i] + buf[i + 1] + 1 <= Len(EntryTable)
  THEN ContentResult(TRUE, DecodeEntries(buf, 2))
  ELSE ContentResult(FALSE, <<>>)

\* file.seek(SeekFrom::Start(0x100)) and read_to_end: the bytes after the
\* header, none when the file is no longer than the header.
ReadPayload(data) ==
  IF Len(data) <= HeaderLen THEN <<>> ELSE SubSeq(data, HeaderLen + 1, Len(data))

\* ------------------------------------------------------------------ state

VARIABLES
  fs,          \* the file system: resolved path -> node
  masterKey,   \* decrypt's key argument, as bytes
  outRoot,     \* decrypt's output_dir argument
  copyMode,    \* what the target's fs::copy does with a file copied onto itself
  pc,          \* the pipeline's position
  index,       \* content.content, once decoded
  idx,         \* the entry the for loop is at
  result,      \* what decrypt returned: "none" while running, "panic" on a panic
  err,         \* the error the run ended with: "none", "io" or "decode"
  fs0,         \* the file system when the first run started
  written,     \* every path this run created, truncated or rewrote
  log,         \* the steps this run executed, in order
  errs,        \* how many steps of this run raised an error
  processed,   \* how many entries of this run got past the is_file test
  lastCipher,  \* the latest cipher construction: the key bytes given, the cipher
  run,         \* 1 or 2: the call of decrypt in progress
  fs1,         \* the file system when the first run ended
  result1      \* what the first run returned

vars == <<fs, masterKey, outRoot, copyMode, pc, index, idx, result, err, fs0,
          written, log, errs, processed, lastCipher, run, fs1, result1>>

PackRoot == <<"pack">>

Sidecars == <<"manifest.json", "pack_icon.png">>

NoCipher == [used |-> FALSE, arg |-> <<>>, panic |-> FALSE, key |-> <<>>, iv |-> <<>>,
             input |-> <<>>, output |-> <<>>]

LogEntry(step, n) == [step |-> step, n |-> n]

\* ------------------------------------------------------------ initial states

ManifestData == <<LB, ONE, RB>>
IconData == <<RB, RB>>
Header == Rep(HeaderLen, WS)

FsOf(pairs) ==
  [p \in {e[1] : e \in pairs} |-> (CHOOSE e \in pairs : e[1] = p)[2]]

\* contents.json as the packer wrote it, or damaged.
ContentsFile(kind, ns) ==
  IF kind = "absent" THEN {}
  ELSE IF kind = "short" THEN {<<PackRoot \o <<"contents.json">>, FileNode(Rep(100, WS))>>}
  ELSE IF kind = "exact" THEN {<<PackRoot \o <<"contents.json">>, FileNode(Header)>>}
  ELSE IF kind = "garbage"
  THEN {<<PackRoot \o <<"contents.json">>, FileNode(Header \o <<RB, RB, LB>>)>>}
  ELSE {<<PackRoot \o <<"contents.json">>,
          FileNode(Header \o Encrypt(TrueMasterKey, EncodeIndex(ns)))>>}

\* What lies at the output root before the call: nothing, the tree of an
\* earlier run (with a directory and a file where this run wants a file and a
\* directory), or a regular file.
OutputBefore(root, pre) ==
  IF root = PackRoot \/ pre = "absent" THEN {}
  ELSE IF pre = "blocked" THEN {<<root, FileNode(<<ONE>>)>>}
  ELSE {<<root, DirNode>>,
        <<root \o <<"d.dat">>, DirNode>>,
        <<root \o <<"sub">>, FileNode(<<ONE>>)>>,
        <<root \o <<"a.json">>, FileNode(<<RB>>)>>}

InitFs(data, kind, ns, hasManifest, hasIcon, root, pre) ==
  FsOf({<<PackRoot, DirNode>>,
        <<PackRoot \o <<"a.json">>, FileNode(data)>>,
        <<PackRoot \o <<"b.dat">>, FileNode(Encrypt(KeyA, data))>>,
        <<PackRoot \o <<"sub">>, DirNode>>,
        <<PackRoot \o <<"sub", "c.json">>, FileNode(Encrypt(KeyB, data))>>,
        <<PackRoot \o <<"u.JSON">>, FileNode(data)>>,
        <<PackRoot \o <<"d.dat">>, FileNode(data)>>,
        <<<<"x.dat">>, FileNode(data)>>}
       \cup ContentsFile(kind, ns)
       \cup (IF hasManifest
             THEN {<<PackRoot \o <<"manifest.json">>, FileNode(ManifestData)>>} ELSE {})
       \cup (IF hasIcon
             THEN {<<PackRoot \o <<"pack_icon.png">>, FileNode(IconData)>>} ELSE {})
       \cup OutputBefore(root, pre))

Roots == {<<"out">>, PackRoot, PackRoot \o <<"out">>}

PreStates(root) == IF root = PackRoot THEN {"absent"} ELSE {"absent", "stale", "blocked"}

IndexPreStates(root) == IF root = <<"out">> THEN {"absent", "stale"} ELSE {"absent"}

CopyModes == {"truncate", "error"}

MasterKeys == {TrueMasterKey, KeyA, ShortKey, MidKey, LongMasterKey, <<>>}

RECURSIVE IndexSeqs(_)
IndexSeqs(n) ==
  IF n = 0 THEN {<<>>}
  ELSE LET shorter == IndexSeqs(n - 1)
       IN shorter \cup {Append(s, e) : s \in {t \in shorter : Len(t) = n - 1},
                                        e \in 1 .. Len(EntryTable)}

DataSamples == {<<WS, ONE>>, <<RB, ONE>>}

InitWith(key, root, mode, f) ==
  /\ fs = f
  /\ masterKey = key
  /\ outRoot = root
  /\ copyMode = mode
  /\ pc = "create_root"
  /\ index = <<>>
  /\ idx = 1
  /\ result = "none"
  /\ err = "none"
  /\ fs0 = fs
  /\ written = {}
  /\ log = <<>>
  /\ errs = 0
  /\ processed = 0
  /\ lastCipher = NoCipher
  /\ run = 1
  /\ fs1 = fs
  /\ result1 = "none"

\* Any key, any state of contents.json and of the sidecar files.
InitPrelude ==
  \E key \in MasterKeys, root \in Roots,
     kind \in {"absent", "short", "exact", "garbage", "valid"},
     sidecar \in {<<TRUE, TRUE>>, <<FALSE, TRUE>>, <<TRUE, FALSE>>} :
    \E pre \in PreStates(root), mode \in CopyModes :
      InitWith(key, root, mode,
               InitFs(<<LB, ONE, RB>>, kind, <<3>>, sidecar[1], sidecar[2], root, pre))

\* The right key and every index of up to MaxEntries entries.
InitIndex ==
  \E ns \in IndexSeqs(MaxEntries), root \in Roots, data \in DataSamples :
    \E pre \in IndexPreStates(root) :
      InitWith(TrueMasterKey, root, "truncate",
               InitFs(data, "valid", ns, TRUE, TRUE, root, pre))

\* The right key, one entry, and every content of up to MaxLen bytes.
InitData ==
  \E n \in 1 .. Len(EntryTable), root \in Roots, data \in SeqsUpTo(MaxLen),
     mode \in CopyModes :
    InitWith(TrueMasterKey, root, mode,
             InitFs(data, "valid", <<n>>, TRUE, TRUE, root, "absent"))

Init == InitPrelude \/ InitIndex \/ InitData

\* ------------------------------------------------------------------ steps

\* A variant that drops the result of an I/O call instead of returning it.
AfterStepIgnoringIo(e, nextPc) ==
  IF e = "panic" THEN [pc |-> "done", result |-> "panic", err |-> "none"]
  ELSE IF e = "decode" THEN [pc |-> "done", result |-> "false", err |-> e]
  ELSE [pc |-> nextPc, result |-> "none", err |-> "none"]

\* The ? operator and decrypt's match on the result: the first Err ends the
\* run and decrypt returns false; a panic ends it without a return value.
AfterStep(e, nextPc) ==
  IF e = "none" THEN [pc |-> nextPc, result |-> "none", err |-> "none"]
  ELSE IF e = "panic" THEN [pc |-> "done", result |-> "panic", err |-> "none"]
  ELSE [pc |-> "done", result |-> "false", err |-> e]

Commit(newFs, made, e, nextPc, label) ==
  LET a == AfterStep(e, nextPc)
  IN /\ fs' = newFs
     /\ written' = written \cup made
     /\ pc' = a.pc
     /\ result' = a.result
     /\ err' = a.err
     /\ errs' = IF e \in {"io", "decode"} THEN errs + 1 ELSE errs
     /\ log' = Append(log, label)
     /\ UNCHANGED <<masterKey, outRoot, copyMode, fs0, run, fs1, result1>>

\* create_dir_all(output_path)?
CreateOutRoot ==
  /\ pc = "create_root"
  /\ LET r == CreateDirAll(fs, Resolve(outRoot))
     IN Commit(r.fs, r.made, IF r.ok THEN "none" ELSE "io", "copy_manifest",
               LogEntry("create_root", 0))
  /\ UNCHANGED <<index, idx, processed, lastCipher>>

\* copy(input_path.join(file), output_path.join(file))? for the i-th sidecar.
CopySidecar(i) ==
  /\ pc = (IF i = 1 THEN "copy_manifest" ELSE "copy_icon")
  /\ LET r == CopyFile(fs, Resolve(Join(PackRoot, <<Sidecars[i]>>)),
                       Resolve(Join(outRoot, <<Sidecars[i]>>)), copyMode)
     IN Commit(r.fs, r.made, IF r.ok THEN "none" ELSE "io",
               IF i = 1 THEN "copy_icon" ELSE "decode_index",
               LogEntry("copy_sidecar", i))
  /\ UNCHANGED <<index, idx, processed, lastCipher>>

\* The block computing content: open, seek, read, decrypt, parse.
DecodeIndex ==
  /\ pc = "decode_index"
  /\ LET path == Resolve(Join(PackRoot, <<"contents.json">>))
         opened == IsFile(fs, path)
         buffer == IF opened THEN ReadPayload(fs[path].data) ELSE <<>>
         c == SetupCipher(masterKey)
         plain == IF c.panic THEN <<>> ELSE CipherDecrypt(c, buffer)
         parsed == ParseContent(plain)
         e == IF ~opened THEN "io"
              ELSE IF c.panic THEN "panic"
              ELSE IF ~parsed.ok THEN "decode" ELSE "none"
     IN /\ Commit(fs, {}, e, "entries", LogEntry("decode_index", 0))
        /\ index' = (IF e = "none" THEN parsed.content ELSE index)
        /\ lastCipher' = (IF opened
                          THEN [used |-> TRUE, arg |-> masterKey, panic |-> c.panic,
                                key |-> c.key, iv |-> c.iv, input |-> buffer,
                                output |-> plain]
                          ELSE lastCipher)
  /\ UNCHANGED <<idx, processed>>

InputEntryPath(e) == Join(PackRoot, e.path)
OutputEntryPath(e) == Join(outRoot, e.path)

AtEntry == pc = "entries" /\ idx <= Len(index)

\* if !input_entry_path.is_file() { continue; }
SkipEntry ==
  /\ AtEntry
  /\ ~IsFile(fs, Resolve(InputEntryPath(index[idx])))
  /\ Commit(fs, {}, "none", "entries", LogEntry("entry", idx))
  /\ idx' = idx + 1
  /\ UNCHANGED <<index, processed, lastCipher>>

\* The None arm: nothing when the two paths are equal, otherwise a prettified
\* copy of a ".json" file that parses and a plain copy of anything else.
CopyEntry ==
  /\ AtEntry
  /\ LET e == index[idx]
         src == Resolve(InputEntryPath(e))
         dst == Resolve(OutputEntryPath(e))
     IN /\ IsFile(fs, src)
        /\ ~e.hasKey
        /\ LET d == CreateDirAll(fs, Resolve(Parent(OutputEntryPath(e))))
               json == ParseJson(fs[src].data)
               w == IF ~d.ok THEN d
                    ELSE IF InputEntryPath(e) = OutputEntryPath(e)
                    THEN IoResult(TRUE, d.fs, {})
                    ELSE IF EndsWithJson(e.path) /\ json.ok
                    THEN WriteFile(d.fs, dst, ToPretty(json.val))
                    ELSE CopyFile(d.fs, src, dst, copyMode)
           IN Commit(w.fs, d.made \cup w.made, IF w.ok THEN "none" ELSE "io",
                     "entries", LogEntry("entry", idx))
  /\ idx' = idx + 1
  /\ processed' = processed + 1
  /\ UNCHANGED <<index, lastCipher>>

\* What a decrypted entry is written as: prettified when its path ends in
\* ".json" and it parses, the decrypted bytes otherwise.
\* A variant that returns the parse error of a ".json" entry.
NormalizeStrict(path, buffer) ==
  LET json == ParseJson(buffer)
  IN IF EndsWithJson(path)
     THEN (IF json.ok THEN [ok |-> TRUE, data |-> ToPretty(json.val)]
           ELSE [ok |-> FALSE, data |-> <<>>])
     ELSE [ok |-> TRUE, data |-> buffer]
Normalize(path, buffer) ==
  LET json == ParseJson(buffer)
  IN IF EndsWithJson(path) /\ json.ok
     THEN [ok |-> TRUE, data |-> ToPretty(json.val)]
     ELSE [ok |-> TRUE, data |-> buffer]

\* The Some(key) arm: read the file, decrypt it under the entry's key, write it.
DecryptEntry ==
  /\ AtEntry
  /\ LET e == index[idx]
         src == Resolve(InputEntryPath(e))
         dst == Resolve(OutputEntryPath(e))
     IN /\ IsFile(fs, src)
        /\ e.hasKey
        /\ LET d == CreateDirAll(fs, Resolve(Parent(OutputEntryPath(e))))
               buffer == fs[src].data
               c == SetupCipher(e.key)
               plain == IF c.panic THEN <<>> ELSE CipherDecrypt(c, buffer)
               n == Normalize(e.path, plain)
               w == IF ~d.ok \/ c.panic \/ ~n.ok THEN IoResult(d.ok, d.fs, {})
                    ELSE WriteFile(d.fs, dst, n.data)
               r == IF ~d.ok THEN "io"
                    ELSE IF c.panic THEN "panic"
                    ELSE IF ~n.ok THEN "decode"
                    ELSE IF ~w.ok THEN "io" ELSE "none"
           IN /\ Commit(w.fs, d.made \cup w.made, r, "entries", LogEntry("entry", idx))
              /\ lastCipher' = (IF d.ok
                                THEN [used |-> TRUE, arg |-> e.key, panic |-> c.panic,
                                      key |-> c.key, iv |-> c.iv, input |-> buffer,
                                      output |-> plain]
                                ELSE lastCipher)
  /\ idx' = idx + 1
  /\ processed' = processed + 1
  /\ UNCHANGED index

\* Ok(true), which decrypt returns as true.
Finish ==
  /\ pc = "entries"
  /\ idx > Len(index)
  /\ pc' = "done"
  /\ result' = "true"
  /\ UNCHANGED <<fs, masterKey, outRoot, copyMode, index, idx, err, fs0, written, log,
                 errs, processed, lastCipher, run, fs1, result1>>

\* A second call of decrypt with the same three arguments.
Rerun ==
  /\ pc = "done"
  /\ run = 1
  /\ run' = 2
  /\ fs1' = fs
  /\ result1' = result
  /\ pc' = "create_root"
  /\ index' = <<>>
  /\ idx' = 1
  /\ result' = "none"
  /\ err' = "none"
  /\ written' = {}
  /\ log' = <<>>
  /\ errs' = 0
  /\ processed' = 0
  /\ lastCipher' = NoCipher
  /\ UNCHANGED <<fs, masterKey, outRoot, copyMode, fs0>>

Next ==
  \/ CreateOutRoot
  \/ CopySidecar(1)
  \/ CopySidecar(2)
  \/ DecodeIndex
  \/ SkipEntry
  \/ CopyEntry
  \/ DecryptEntry
  \/ Finish

Spec == Init /\ [][Next]_vars

InitTwice == InitPrelude \/ InitData

NextTwice == Next \/ Rerun

SpecTwice == InitTwice /\ [][NextTwice]_vars

\* ------------------------------------------------------------------ claims

RegularFile(f, p) == p \in DOMAIN f /\ f[p].kind = "file"

SourceOf(e) == Resolve(Join(PackRoot, e.path))
DestinationOf(e) == Resolve(Join(outRoot, e.path))

UnderOutRoot(p) == IsPrefix(Resolve(outRoot), p)
UnderArchive(p) == IsPrefix(PackRoot, p)

ContentsPath == PackRoot \o <<"contents.json">>
SidecarTargets == {Resolve(outRoot) \o <<Sidecars[i]>> : i \in 1 .. 2}

KeyUsedWithWrongLength == lastCipher.used /\ Len(lastCipher.arg) # KeyLen

\* C1: a call in which the master key, or the key of a processed entry, does
\* not have the length the cipher requires ends by returning false; it never
\* panics.
C1_WrongKeyLengthReturnsFailure ==
  /\ result # "panic"
  /\ KeyUsedWithWrongLength => (pc = "done" /\ result = "false")

FilesUnder(f, root) == {p \in DOMAIN f : IsPrefix(root, p) /\ f[p].kind = "file"}

EmptyPayload ==
  RegularFile(fs0, ContentsPath) /\ Len(fs0[ContentsPath].data) <= HeaderLen

\* C3: when contents.json is no longer than its 256 byte header (in particular
\* shorter), the run never succeeds and with a key of the right length returns
\* false; no entry is processed, and the run writes nothing but the two
\* sidecar files below the output root it created.
C3_EmptyPayloadIsFatal ==
  EmptyPayload =>
    /\ result # "true"
    /\ index = <<>>
    /\ processed = 0
    /\ written \subseteq {Resolve(outRoot)} \cup SidecarTargets
    /\ (pc = "done" /\ Len(masterKey) = KeyLen) => result = "false"
    /\ (pc = "done" /\ err = "decode" /\ ~Exists(fs0, Resolve(outRoot))) =>
         FilesUnder(fs, Resolve(outRoot)) = SidecarTargets

C3_Witness ==
  /\ EmptyPayload
  /\ Len(fs0[ContentsPath].data) < HeaderLen
  /\ pc = "done"
  /\ result = "false"
  /\ err = "decode"
  /\ FilesUnder(fs, Resolve(outRoot)) = SidecarTargets

\* C4: an entry, with or without a key, whose source is not a regular file is
\* skipped: the step changes no file and creates no directory, raises no
\* error, and the loop goes on to the next entry.
C4_MissingSourceIsSkipped ==
  [][(AtEntry /\ ~RegularFile(fs, SourceOf(index[idx]))) =>
       /\ fs' = fs
       /\ written' = written
       /\ processed' = processed
       /\ err' = "none"
       /\ result' = "none"
       /\ pc' = "entries"
       /\ idx' = idx + 1]_vars

C4_Witness ==
  /\ pc = "done"
  /\ result = "true"
  /\ Len(index) = 2
  /\ index[1].hasKey
  /\ ~RegularFile(fs, SourceOf(index[1]))
  /\ ~Exists(fs, DestinationOf(index[1]))
  /\ processed = 1
  /\ RegularFile(fs, DestinationOf(index[2]))

\* What C5 says of a keyless entry's destination bytes d and source bytes s.
CopiedOrPrettified(path, s, d) ==
  IF Last(path) \in JsonNames /\ ParseJson(s).ok
  THEN ParseJson(d).ok /\ ParseJson(d).val = ParseJson(s).val
  ELSE d = s

ContainedRun ==
  /\ outRoot = <<"out">>
  /\ \A i \in 1 .. Len(index) : ~IsAbsolute(index[i].path) /\ index[i].path[1] # ".."

\* C5 as stated, on the runs whose output root is disjoint from the archive and
\* whose entry paths stay below the roots: after a successful run the
\* destination of every keyless entry with a regular source holds the source's
\* bytes, or JSON of equal value when the path ends in ".json" and the source
\* parses.
C5_HoldsAfterRun ==
  (pc = "done" /\ result = "true" /\ ContainedRun) =>
    \A i \in 1 .. Len(index) :
      (~index[i].hasKey /\ RegularFile(fs0, SourceOf(index[i]))) =>
        /\ RegularFile(fs, DestinationOf(index[i]))
        /\ CopiedOrPrettified(index[i].path, fs0[SourceOf(index[i])].data,
                              fs[DestinationOf(index[i])].data)

\* C5 amended: right after the step that processed a keyless entry with a
\* regular source without error, the destination holds the source's bytes, or
\* JSON of equal value when the path ends in ".json" and the source parses; a
\* source that is another file than the destination is left as it was.
C5_HoldsAfterEntry ==
  [][(AtEntry /\ ~index[idx].hasKey /\ RegularFile(fs, SourceOf(index[idx]))
      /\ err' = "none") =>
       LET e == index[idx]
       IN /\ RegularFile(fs', DestinationOf(e))
          /\ RegularFile(fs', SourceOf(e))
          /\ SourceOf(e) # DestinationOf(e) => fs'[SourceOf(e)] = fs[SourceOf(e)]
          /\ CopiedOrPrettified(e.path, fs'[SourceOf(e)].data,
                                fs'[DestinationOf(e)].data)]_vars

C5_Witness ==
  /\ pc = "entries"
  /\ idx = 2
  /\ outRoot = <<"out">>
  /\ index[1] = ContentEntry(<<"a.json">>, FALSE, <<>>)
  /\ RegularFile(fs, DestinationOf(index[1]))
  /\ fs[DestinationOf(index[1])].data # fs[SourceOf(index[1])].data
  /\ ParseJson(fs[DestinationOf(index[1])].data).val
       = ParseJson(fs[SourceOf(index[1])].data).val

DecryptedBytes(e, f) == CipherDecrypt(SetupCipher(e.key), f[SourceOf(e)].data)

\* C6: a decoded index payload that is no content index fails the run before
\* any entry is processed, and only that raises a decode error: when the
\* decrypted bytes of a key-bearing ".json" entry do not parse, the step raises
\* no decode error and, unless an I/O error ends the run, the destination holds
\* exactly the decrypted bytes, as many as the source has.
C6_ParseFailureAsymmetry ==
  [][/\ err' = "decode" =>
          /\ pc = "decode_index"
          /\ pc' = "done"
          /\ result' = "false"
          /\ index' = <<>>
          /\ processed' = 0
          /\ fs' = fs
     /\ (AtEntry /\ index[idx].hasKey /\ Len(index[idx].key) = KeyLen
         /\ RegularFile(fs, SourceOf(index[idx]))
         /\ Last(index[idx].path) \in JsonNames
         /\ ~ParseJson(DecryptedBytes(index[idx], fs)).ok) =>
          /\ err' \in {"none", "io"}
          /\ err' = "none" =>
               /\ result' = "none"
               /\ pc' = "entries"
               /\ RegularFile(fs', DestinationOf(index[idx]))
               /\ fs'[DestinationOf(index[idx])].data = DecryptedBytes(index[idx], fs)
               /\ Len(fs'[DestinationOf(index[idx])].data)
                    = Len(fs[SourceOf(index[idx])].data)]_vars

C6_Witness ==
  /\ pc = "done"
  /\ result = "true"
  /\ Len(index) = 1
  /\ index[1].hasKey
  /\ Last(index[1].path) \in JsonNames
  /\ lastCipher.used
  /\ lastCipher.input # <<>>
  /\ ~ParseJson(lastCipher.output).ok
  /\ RegularFile(fs, DestinationOf(index[1]))
  /\ fs[DestinationOf(index[1])].data = lastCipher.output

\* C7: a second run with the same three arguments reports what the first
\* reported and leaves the output tree as the first run left it, also when the
\* output root is the archive root or lies inside it.
C7_SecondRunChangesNothing ==
  (run = 2 /\ pc = "done") =>
    /\ result = result1
    /\ \A p \in DOMAIN fs \cup DOMAIN fs1 :
         UnderOutRoot(p) => (p \in DOMAIN fs /\ p \in DOMAIN fs1 /\ fs[p] = fs1[p])

\* C8: no file of the archive root has its bytes changed by a call, whatever
\* the output root and the entry paths.
C8_ArchiveFilesKeepTheirBytes ==
  \A p \in DOMAIN fs0 :
    (UnderArchive(p) /\ fs0[p].kind = "file") => (p \in DOMAIN fs /\ fs[p] = fs0[p])

\* The k-th step of a run.
StepAt(k) ==
  IF k = 1 THEN LogEntry("create_root", 0)
  ELSE IF k = 2 THEN LogEntry("copy_sidecar", 1)
  ELSE IF k = 3 THEN LogEntry("copy_sidecar", 2)
  ELSE IF k = 4 THEN LogEntry("decode_index", 0)
  ELSE LogEntry("entry", k - 4)

\* C9: the steps run in the order create output root, copy manifest.json, copy
\* pack_icon.png, decode the index, entries in index order; the first step
\* that raises an error is the last step of the run and the run returns false;
\* true is returned only when every step and every entry went through without
\* error.
C9_OrderedAndFailFast ==
  /\ \A k \in 1 .. Len(log) : log[k] = StepAt(k)
  /\ errs <= 1
  /\ (errs = 1) = (err # "none")
  /\ errs = 1 => (pc = "done" /\ result = "false")
  /\ result = "false" => errs = 1
  /\ result = "true" =>
       (errs = 0 /\ pc = "done" /\ Len(log) = 4 + Len(index) /\ idx = Len(index) + 1)

C9_Witness ==
  /\ pc = "done"
  /\ result = "false"
  /\ err = "io"
  /\ Len(index) = 2
  /\ Len(log) = 5
  /\ idx = 2
  /\ RegularFile(fs, SourceOf(index[2]))
  /\ ~Exists(fs, DestinationOf(index[2]))

\* C10: every file or directory a run creates or overwrites lies beneath the
\* output root, whatever the entry paths of the decoded index.
C10_WritesStayBelowOutputRoot == \A p \in written : UnderOutRoot(p)

====
